---- MODULE Spec2Model ----
(***************************************************************************)
(* Model of zhihu_scraper.py: the HTML-to-text extractor                   *)
(* (TextOnlyHTMLParser, parse_answer_text), the chunker (chunk_text), the  *)
(* pagination client (fetch_answers) and the CSV writer driven by main.    *)
(*                                                                         *)
(* A Python str is modelled as a sequence of one-character strings; an     *)
(* undecoded character reference inside a text node is one unit of such a  *)
(* sequence (for instance "&amp").                                         *)
(***************************************************************************)
EXTENDS Integers, Sequences, FiniteSets, TLC

VARIABLES
    \* ---- TextOnlyHTMLParser, one extraction (parse_answer_text) ----
    html,            \* the input of feed(), as the parser's event stream
    pos,             \* number of events already dispatched
    parts,           \* self._parts
    ignored_depth,   \* self._ignored_depth
    xpc,             \* "idle" | "feeding" | "done"
    text_out,        \* the value returned by get_text()
    parsed,          \* number of answers extracted before this one
    \* ---- chunk_text, one call ----
    ctext,           \* argument text
    csize,           \* argument chunk_size
    cpc,             \* "idle" | "call" | "returned" | "raised"
    chunks,          \* the returned list
    \* ---- main: fetch_answers consumed by write_answers_to_csv ----
    limit,           \* args.limit
    args_chunk_size, \* args.chunk_size
    transport,       \* which remote service answers the requests
    mpc,             \* position of main / write_answers_to_csv
    gpc,             \* position of the fetch_answers generator
    collected,       \* fetch_answers: collected
    offset,          \* fetch_answers: offset
    current_limit,   \* fetch_answers: current_limit
    answers,         \* fetch_answers: the page being iterated
    ans_idx,         \* index in answers of the record of the for loop
    is_end,          \* payload["paging"]["is_end"] of the last page
    requests,        \* history: every request issued
    responses,       \* history: every response received
    yielded,         \* history: every record yielded
    rows,            \* the rows of the CSV file
    sleeps,          \* history: per time.sleep call, the requests before it
    error            \* the exception that ended the run, if any

exVars == <<html, pos, parts, ignored_depth, xpc, text_out, parsed>>
chVars == <<ctext, csize, cpc, chunks>>
plVars ==
    <<limit, args_chunk_size, transport, mpc, gpc, collected, offset,
      current_limit, answers, ans_idx, is_end, requests, responses, yielded,
      rows, sleeps, error>>
vars == <<exVars, chVars, plVars>>

(***************************************************************************)
(* Bounds of the model                                                     *)
(***************************************************************************)
MaxEvents == 4
MaxAnswers == 2
MaxParts == 6
MaxTextLen == 5
MaxChunkSize == 4

Min(a, b) == IF a < b THEN a ELSE b

BoundedSeq(S, n) == UNION {[1..k -> S] : k \in 0..n}

(***************************************************************************)
(* Python string helpers                                                   *)
(***************************************************************************)
\* characters str.strip() removes
Whitespace == {" ", "\t", "\n", "\r", "\f"}

\* characters str.splitlines() breaks at ("\r\n" counts as one break)
LineBoundaries == {"\n", "\r", "\f"}

\* s[a:b] for 0 <= a <= b
Slice(s, a, b) == SubSeq(s, a + 1, Min(b, Len(s)))

RECURSIVE LStrip(_)
LStrip(s) ==
    IF s # <<>> /\ Head(s) \in Whitespace THEN LStrip(Tail(s)) ELSE s

RECURSIVE RStrip(_)
RStrip(s) ==
    IF s # <<>> /\ s[Len(s)] \in Whitespace
    THEN RStrip(SubSeq(s, 1, Len(s) - 1))
    ELSE s

\* str.strip()
Strip(s) == RStrip(LStrip(s))

\* "".join(list)
RECURSIVE JoinEmpty(_)
JoinEmpty(list) ==
    IF list = <<>> THEN <<>> ELSE Head(list) \o JoinEmpty(Tail(list))

\* "\n".join(list)
RECURSIVE JoinNewline(_)
JoinNewline(list) ==
    IF list = <<>> THEN <<>>
    ELSE IF Len(list) = 1 THEN Head(list)
    ELSE Head(list) \o <<"\n">> \o JoinNewline(Tail(list))

\* str.splitlines(): i is the next index, cur the line being read
RECURSIVE SplitLinesRec(_, _, _, _)
SplitLinesRec(s, i, cur, acc) ==
    IF i > Len(s)
    THEN IF cur = <<>> THEN acc ELSE Append(acc, cur)
    ELSE IF s[i] \in LineBoundaries
    THEN LET skip == IF s[i] = "\r" /\ i < Len(s) /\ s[i + 1] = "\n"
                     THEN 2 ELSE 1
         IN SplitLinesRec(s, i + skip, <<>>, Append(acc, cur))
    ELSE SplitLinesRec(s, i + 1, Append(cur, s[i]), acc)

SplitLines(s) == SplitLinesRec(s, 1, <<>>, <<>>)

\* html.unescape on one unit of text
UnescapeUnit(u) ==
    CASE u = "&amp;" -> "&"
      [] u = "&amp" -> "&"
      [] u = "&lt;" -> "<"
      [] u = "&#65;" -> "A"
      [] u = "&#32;" -> " "
      [] u = "&#10;" -> "\n"
      [] OTHER -> u

\* html.unescape(data)
Unescape(data) == [i \in 1..Len(data) |-> UnescapeUnit(data[i])]

\* f"&{name};"
EntityRefText(name) ==
    CASE name = "amp" -> "&amp;"
      [] name = "lt" -> "&lt;"
      [] OTHER -> "&zzz;"

\* f"&#{name};"
CharRefText(name) ==
    CASE name = "65" -> "&#65;"
      [] name = "32" -> "&#32;"
      [] name = "10" -> "&#10;"
      [] OTHER -> "&#0;"

(***************************************************************************)
(* TextOnlyHTMLParser                                                      *)
(***************************************************************************)
IGNORED_TAGS ==
    {"script", "style", "noscript", "svg", "video", "audio", "figure",
     "img", "iframe"}

BLOCK_TAGS ==
    {"p", "div", "section", "br", "li", "ul", "ol", "blockquote", "pre",
     "code", "h1", "h2", "h3", "h4", "h5", "h6", "table", "tr", "td"}

\* the parser object's fields after __init__
NewParser == [parts |-> <<>>, depth |-> 0]

handle_starttag(st, tag) ==
    IF tag \in IGNORED_TAGS THEN [st EXCEPT !.depth = @ + 1]
    ELSE IF st.depth # 0 THEN st
    ELSE IF tag \in BLOCK_TAGS THEN [st EXCEPT !.parts = Append(@, <<"\n">>)]
    ELSE st

\* the mutant: only the opening of a block element yields a newline
handle_endtag_no_newline(st, tag) ==
    IF st.depth # 0 /\ tag \in IGNORED_TAGS THEN [st EXCEPT !.depth = @ - 1]
    ELSE st

\* the mutant: the depth is decremented whatever its value
handle_endtag_unguarded(st, tag) ==
    IF tag \in IGNORED_TAGS THEN [st EXCEPT !.depth = @ - 1]
    ELSE IF st.depth # 0 THEN st
    ELSE IF tag \in BLOCK_TAGS THEN [st EXCEPT !.parts = Append(@, <<"\n">>)]
    ELSE st

handle_endtag(st, tag) ==
    IF st.depth # 0 /\ tag \in IGNORED_TAGS THEN [st EXCEPT !.depth = @ - 1]
    ELSE IF st.depth # 0 THEN st
    ELSE IF tag \in BLOCK_TAGS THEN [st EXCEPT !.parts = Append(@, <<"\n">>)]
    ELSE st

\* the mutant: text is appended whatever the depth
handle_data_unsuppressed(st, data) ==
    IF Strip(data) # <<>>
    THEN [st EXCEPT !.parts = Append(@, Unescape(data))]
    ELSE st

handle_data(st, data) ==
    IF st.depth # 0 THEN st
    ELSE IF Strip(data) # <<>>
    THEN [st EXCEPT !.parts = Append(@, Unescape(data))]
    ELSE st

\* the mutant: a reference is appended whatever the depth
handle_entityref_unsuppressed(st, name) ==
    [st EXCEPT !.parts = Append(@, Unescape(<<EntityRefText(name)>>))]

handle_entityref(st, name) ==
    IF st.depth # 0 THEN st
    ELSE [st EXCEPT !.parts = Append(@, Unescape(<<EntityRefText(name)>>))]

handle_charref(st, name) ==
    IF st.depth # 0 THEN st
    ELSE [st EXCEPT !.parts = Append(@, Unescape(<<CharRefText(name)>>))]

\* the for loop of get_text over lines[i..]
RECURSIVE FilterLines(_, _, _, _)
FilterLines(lines, i, previous_blank, filtered_lines) ==
    IF i > Len(lines) THEN filtered_lines
    ELSE LET line == lines[i]
             is_blank == (line = <<>>)
         IN IF is_blank /\ previous_blank
            THEN FilterLines(lines, i + 1, previous_blank, filtered_lines)
            ELSE FilterLines(lines, i + 1, is_blank,
                             Append(filtered_lines, line))

\* the mutant: blank lines are not collapsed
get_text_uncollapsed(p) ==
    LET text == JoinEmpty(p)
        split == SplitLines(text)
        lines == [i \in 1..Len(split) |-> Strip(split[i])]
    IN Strip(JoinNewline(lines))

get_text(p) ==
    LET text == JoinEmpty(p)
        split == SplitLines(text)
        lines == [i \in 1..Len(split) |-> Strip(split[i])]
    IN Strip(JoinNewline(FilterLines(lines, 1, FALSE, <<>>)))

\* dispatch of one parser event to its handler
Dispatch(st, ev) ==
    CASE ev.kind = "start" -> handle_starttag(st, ev.name)
      [] ev.kind = "end" -> handle_endtag(st, ev.name)
      [] ev.kind = "data" -> handle_data(st, ev.data)
      [] ev.kind = "entityref" -> handle_entityref(st, ev.name)
      [] ev.kind = "charref" -> handle_charref(st, ev.name)

RECURSIVE FeedAll(_, _, _)
FeedAll(st, events, i) ==
    IF i > Len(events) THEN st
    ELSE FeedAll(Dispatch(st, events[i]), events, i + 1)

(***************************************************************************)
(* Parser events and inputs                                                *)
(***************************************************************************)
StartTag(t) == [kind |-> "start", name |-> t, data |-> <<>>]
EndTag(t) == [kind |-> "end", name |-> t, data |-> <<>>]
Data(d) == [kind |-> "data", name |-> "", data |-> d]
EntityRef(n) == [kind |-> "entityref", name |-> n, data |-> <<>>]
CharRef(n) == [kind |-> "charref", name |-> n, data |-> <<>>]

ModelTags == {"script", "figure", "p", "span"}

Events ==
    {StartTag(t) : t \in ModelTags} \cup {EndTag(t) : t \in ModelTags}
    \cup {Data(<<"a">>), Data(<<" ">>), EntityRef("amp"), CharRef("10")}

\* "<script>evil()</script>keep"
HtmlScriptKeep ==
    <<StartTag("script"), Data(<<"e", "v", "i", "l", "(", ")">>),
      EndTag("script"), Data(<<"k", "e", "e", "p">>)>>

\* "<p>a</p><p>b</p>"
HtmlTwoParagraphs ==
    <<StartTag("p"), Data(<<"a">>), EndTag("p"),
      StartTag("p"), Data(<<"b">>), EndTag("p")>>

\* "<p>a</p><br><br><p>b</p>"
HtmlParagraphsBreaks ==
    <<StartTag("p"), Data(<<"a">>), EndTag("p"),
      StartTag("br"), StartTag("br"),
      StartTag("p"), Data(<<"b">>), EndTag("p")>>

\* "a &amp; b"
HtmlEntity == <<Data(<<"a", " ">>), EntityRef("amp"), Data(<<" ", "b">>)>>

\* "<script><script>x</script>y</script>keep"
HtmlNestedScript ==
    <<StartTag("script"), StartTag("script"), Data(<<"x">>),
      EndTag("script"), Data(<<"y">>), EndTag("script"),
      Data(<<"k", "e", "e", "p">>)>>

\* "<img>c<p>t &amp;</p>"
HtmlUnclosedImg ==
    <<StartTag("img"), Data(<<"c">>), StartTag("p"), Data(<<"t", " ">>),
      EntityRef("amp"), EndTag("p")>>

\* "<p>Hello</p>"
HtmlHello ==
    <<StartTag("p"), Data(<<"H", "e", "l", "l", "o">>), EndTag("p")>>

ExampleInputs ==
    {HtmlScriptKeep, HtmlTwoParagraphs, HtmlParagraphsBreaks, HtmlEntity,
     HtmlNestedScript, HtmlUnclosedImg}

(***************************************************************************)
(* HTMLParser.feed: from markup to the events the handlers receive.  The   *)
(* markup is written as its sequence of lexemes; inside a script or style  *)
(* element the parser is in CDATA mode and hands everything up to the      *)
(* element's end tag to handle_data as raw text.                           *)
(***************************************************************************)
CDATA_CONTENT_ELEMENTS == {"script", "style"}

\* the source text of a lexeme, in units
RawText(lex) ==
    CASE lex.kind = "start" -> <<"<", lex.name, ">">>
      [] lex.kind = "end" -> <<"</", lex.name, ">">>
      [] lex.kind = "entityref" -> <<EntityRefText(lex.name)>>
      [] lex.kind = "charref" -> <<CharRefText(lex.name)>>
      [] OTHER -> lex.data

Flush(acc, pending) ==
    IF pending = <<>> THEN acc ELSE Append(acc, Data(pending))

RECURSIVE TokenizeRec(_, _, _, _, _)
TokenizeRec(markup, i, cdata_elem, pending, acc) ==
    IF i > Len(markup) THEN Flush(acc, pending)
    ELSE IF cdata_elem # ""
    THEN IF markup[i] = EndTag(cdata_elem)
         THEN TokenizeRec(markup, i + 1, "", <<>>,
                          Append(Flush(acc, pending), markup[i]))
         ELSE TokenizeRec(markup, i + 1, cdata_elem,
                          pending \o RawText(markup[i]), acc)
    ELSE TokenizeRec(markup, i + 1,
                     IF /\ markup[i].kind = "start"
                        /\ markup[i].name \in CDATA_CONTENT_ELEMENTS
                     THEN markup[i].name ELSE "",
                     <<>>, Append(acc, markup[i]))

Tokenize(markup) == TokenizeRec(markup, 1, "", <<>>, <<>>)

parse_answer_text(html_content) ==
    get_text(FeedAll(NewParser, Tokenize(html_content), 1).parts)

\* the markup of the answers of the model
Markups == BoundedSeq(Events, MaxEvents) \cup ExampleInputs

\* the content of the answer extracted after the first one
NextAnswers == {HtmlHello}

\* tokens of the output buffer: newline tokens and text pieces
Tokens == {<<"\n">>, <<"a">>, <<" ">>, <<"\r">>, <<" ", "b", "\n", "\n">>}

(***************************************************************************)
(* chunk_text                                                              *)
(***************************************************************************)
\* the mutant: the slice is one character short of chunk_size
RECURSIVE ChunkLoopShort(_, _, _, _)
ChunkLoopShort(text, chunk_size, start, acc) ==
    IF start < Len(text)
    THEN ChunkLoopShort(text, chunk_size, start + chunk_size,
                        Append(acc, Slice(text, start, start + chunk_size - 1)))
    ELSE acc

\* the while loop of chunk_text
RECURSIVE ChunkLoop(_, _, _, _)
ChunkLoop(text, chunk_size, start, acc) ==
    IF start < Len(text)
    THEN ChunkLoop(text, chunk_size, start + chunk_size,
                   Append(acc, Slice(text, start, start + chunk_size)))
    ELSE acc

\* the mutant: a non-positive chunk size is clamped to 1
chunk_text_clamped(text, chunk_size) ==
    LET size == IF chunk_size <= 0 THEN 1 ELSE chunk_size
    IN IF text = <<>> THEN [raised |-> "", value |-> << <<>> >>]
       ELSE [raised |-> "", value |-> ChunkLoop(text, size, 0, <<>>)]

\* the mutant: no special case for the empty text
chunk_text_no_empty_case(text, chunk_size) ==
    IF chunk_size <= 0 THEN [raised |-> "ValueError", value |-> <<>>]
    ELSE [raised |-> "", value |-> ChunkLoop(text, chunk_size, 0, <<>>)]

chunk_text(text, chunk_size) ==
    IF chunk_size <= 0 THEN [raised |-> "ValueError", value |-> <<>>]
    ELSE IF text = <<>> THEN [raised |-> "", value |-> << <<>> >>]
    ELSE [raised |-> "", value |-> ChunkLoop(text, chunk_size, 0, <<>>)]

(***************************************************************************)
(* Idle values of the components a specification does not exercise         *)
(***************************************************************************)
ExtractorIdle ==
    /\ html = <<>>
    /\ pos = 0
    /\ parts = <<>>
    /\ ignored_depth = 0
    /\ xpc = "idle"
    /\ text_out = <<>>
    /\ parsed = 0

ChunkerIdle ==
    /\ ctext = <<>>
    /\ csize = 1
    /\ cpc = "idle"
    /\ chunks = <<>>

PipelineIdle ==
    /\ limit = 0
    /\ args_chunk_size = 1
    /\ transport = "none"
    /\ mpc = "idle"
    /\ gpc = "idle"
    /\ collected = 0
    /\ offset = 0
    /\ current_limit = 0
    /\ answers = <<>>
    /\ ans_idx = 0
    /\ is_end = FALSE
    /\ requests = <<>>
    /\ responses = <<>>
    /\ yielded = <<>>
    /\ rows = <<>>
    /\ sleeps = <<>>
    /\ error = ""

(***************************************************************************)
(* Specification SpecExtractor: one parse_answer_text call, event by event *)
(***************************************************************************)
InitExtractor ==
    /\ html \in {Tokenize(m) : m \in Markups}
    /\ pos = 0
    /\ parts = NewParser.parts
    /\ ignored_depth = NewParser.depth
    /\ xpc = "feeding"
    /\ text_out = <<>>
    /\ parsed = 0
    /\ ChunkerIdle
    /\ PipelineIdle

ParserState == [parts |-> parts, depth |-> ignored_depth]

NextEvent(kind) ==
    /\ xpc = "feeding"
    /\ pos < Len(html)
    /\ html[pos + 1].kind = kind

Handled(st) ==
    /\ parts' = st.parts
    /\ ignored_depth' = st.depth
    /\ pos' = pos + 1
    /\ UNCHANGED <<html, xpc, text_out, parsed, chVars, plVars>>

HandleStarttag ==
    /\ NextEvent("start")
    /\ Handled(handle_starttag(ParserState, html[pos + 1].name))

HandleEndtag ==
    /\ NextEvent("end")
    /\ Handled(handle_endtag(ParserState, html[pos + 1].name))

HandleData ==
    /\ NextEvent("data")
    /\ Handled(handle_data(ParserState, html[pos + 1].data))

HandleEntityref ==
    /\ NextEvent("entityref")
    /\ Handled(handle_entityref(ParserState, html[pos + 1].name))

HandleCharref ==
    /\ NextEvent("charref")
    /\ Handled(handle_charref(ParserState, html[pos + 1].name))

\* parser.close() and parser.get_text() once the input is consumed
GetText ==
    /\ xpc = "feeding"
    /\ pos = Len(html)
    /\ text_out' = get_text(parts)
    /\ xpc' = "done"
    /\ UNCHANGED <<html, pos, parts, ignored_depth, parsed, chVars, plVars>>

\* parse_answer_text is called for the next answer: a new parser
NewExtraction ==
    /\ xpc = "done"
    /\ parsed + 1 < MaxAnswers
    /\ html' \in {Tokenize(m) : m \in NextAnswers}
    /\ pos' = 0
    /\ parts' = NewParser.parts
    /\ ignored_depth' = NewParser.depth
    /\ xpc' = "feeding"
    /\ text_out' = <<>>
    /\ parsed' = parsed + 1
    /\ UNCHANGED <<chVars, plVars>>

NextExtractor ==
    \/ HandleStarttag
    \/ HandleEndtag
    \/ HandleData
    \/ HandleEntityref
    \/ HandleCharref
    \/ GetText
    \/ NewExtraction

SpecExtractor == InitExtractor /\ [][NextExtractor]_vars

(***************************************************************************)
(* Specification SpecGetText: get_text on an arbitrary output buffer       *)
(***************************************************************************)
InitGetText ==
    /\ html = <<>>
    /\ pos = 0
    /\ parts \in BoundedSeq(Tokens, MaxParts)
    /\ ignored_depth = 0
    /\ xpc = "feeding"
    /\ text_out = <<>>
    /\ parsed = 0
    /\ ChunkerIdle
    /\ PipelineIdle

NextGetText == GetText

SpecGetText == InitGetText /\ [][NextGetText]_vars

(***************************************************************************)
(* Specification SpecChunker: one chunk_text call                          *)
(***************************************************************************)
TextChars == {"a", "b"}

TextAbcdef == <<"a", "b", "c", "d", "e", "f">>
TextAbcde == <<"a", "b", "c", "d", "e">>

InitChunker ==
    /\ ExtractorIdle
    /\ PipelineIdle
    /\ ctext \in BoundedSeq(TextChars, MaxTextLen) \cup {TextAbcdef, TextAbcde}
    /\ csize \in -1..MaxChunkSize
    /\ cpc = "call"
    /\ chunks = <<>>

ChunkText ==
    /\ cpc = "call"
    /\ LET r == chunk_text(ctext, csize)
       IN /\ cpc' = IF r.raised # "" THEN "raised" ELSE "returned"
          /\ chunks' = r.value
    /\ UNCHANGED <<ctext, csize, exVars, plVars>>

NextChunker == ChunkText

SpecChunker == InitChunker /\ [][NextChunker]_vars

(***************************************************************************)
(* fetch_answers, write_answers_to_csv and main                            *)
(***************************************************************************)
DEFAULT_PAGE_SIZE == 20

\* the author name used when the record carries none
PLACEHOLDER_NAME == "anonymous-user"

\* JSON values of a raw answer: a key is absent, null, or holds a value
Absent == [t |-> "absent", n |-> 0, s |-> "", html |-> <<>>]
Null == [t |-> "null", n |-> 0, s |-> "", html |-> <<>>]
JInt(n) == [t |-> "int", n |-> n, s |-> "", html |-> <<>>]
JAuthor(name) == [t |-> "object", n |-> 0, s |-> name, html |-> <<>>]
JHtml(h) == [t |-> "string", n |-> 0, s |-> "", html |-> h]

RawAnswer(author, voteup, favlists, content) ==
    [author |-> author, voteup_count |-> voteup, favlists_count |-> favlists,
     content |-> content]

\* the answer a remote service holds at position i of its result list
Answer(service, i) ==
    IF service = "null_counts" /\ i % 2 = 1
    THEN RawAnswer(JAuthor("B"), Null, JInt(0), JHtml(HtmlHello))
    ELSE IF service = "two_answers" /\ i = 1
    THEN RawAnswer(JAuthor("B"), JInt(0), JInt(0), JHtml(<<>>))
    ELSE CASE i % 3 = 0 ->
                RawAnswer(JAuthor("A"), JInt(3), JInt(1), JHtml(HtmlHello))
           [] i % 3 = 1 -> RawAnswer(Absent, Absent, Absent, Absent)
           [] OTHER ->
                RawAnswer(JAuthor(""), JInt(7), Absent,
                          JHtml(HtmlTwoParagraphs))

\* int(answer.get(key, 0))
IntOf(v) ==
    CASE v.t = "absent" -> [raised |-> "", n |-> 0]
      [] v.t = "int" -> [raised |-> "", n |-> v.n]
      [] OTHER -> [raised |-> "TypeError", n |-> 0]

\* the body of the for loop of fetch_answers up to the yield
BuildRecord(answer) ==
    LET author_name ==
            IF answer.author.t = "object" /\ answer.author.s # ""
            THEN answer.author.s
            ELSE PLACEHOLDER_NAME
        voteup == IntOf(answer.voteup_count)
        favlists == IntOf(answer.favlists_count)
        raw_content ==
            IF answer.content.t = "string" THEN answer.content.html ELSE <<>>
    IN [raised |-> IF voteup.raised # "" THEN voteup.raised
                   ELSE favlists.raised,
        author_name |-> author_name,
        voteup_count |-> voteup.n,
        favlists_count |-> favlists.n,
        content_text |-> parse_answer_text(raw_content)]

\* the mutant: every request asks for a full page
CurrentLimitFullPage(lim, coll) == DEFAULT_PAGE_SIZE

\* current_limit = min(per_page, limit - collected)
CurrentLimit(lim, coll) == Min(DEFAULT_PAGE_SIZE, lim - coll)

\* the mutant: an empty page does not end the loop
AfterPageNoBreak(page) == "for"

\* if not answers: break
AfterPage(page) == IF Len(page) = 0 THEN "end" ELSE "for"

\* the mutant: the for loop does not stop at the limit
AfterYieldNoBreak(coll, lim) == "for"

\* if collected >= limit: break
AfterYield(coll, lim) == IF coll >= lim THEN "paging" ELSE "for"

\* the mutant: a yielded record is not counted
NextCollectedStuck(coll) == coll

\* collected += 1
NextCollected(coll) == coll + 1

\* the mutant: the offset advances by the number of records received
NextOffsetReceived(off, cl, page) == off + Len(page)

\* offset += current_limit
NextOffset(off, cl, page) == off + cl

\* the mutant: only the first chunk is written
MakeRowFirstChunk(record, content_chunks) ==
    [src |-> record.src,
     author_name |-> record.author_name,
     voteup_count |-> record.voteup_count,
     favlists_count |-> record.favlists_count,
     chunks |-> <<content_chunks[1]>>]

\* row = [author_name, voteup_count, favlists_count, *content_chunks]; src
\* names the yielded record the row was made from
MakeRow(record, content_chunks) ==
    [src |-> record.src,
     author_name |-> record.author_name,
     voteup_count |-> record.voteup_count,
     favlists_count |-> record.favlists_count,
     chunks |-> content_chunks]

\* the mutant: the for loop skips every other answer
NextIndexSkip(i) == i + 2

\* the next answer of the for loop
NextIndex(i) == i + 1

(***************************************************************************)
(* The remote services of the model                                        *)
(***************************************************************************)
MaxLimit == 25
MaxExtra == 1

ModelChunkSizes == {0, 3, 5}
ExampleLimits == {1000}
FailureCauses == {"status", "body", "timeout"}

\* page lengths the unconstrained service may answer a request of cl with:
\* empty, short, exact or more than requested
PageLens(cl) == {0, 1} \cup (cl..(cl + MaxExtra))

Page(n, e) == [ok |-> TRUE, len |-> n, is_end |-> e, cause |-> ""]
Failure(c) == [ok |-> FALSE, len |-> 0, is_end |-> FALSE, cause |-> c]

PageChoices(service, cl, off) ==
    CASE service = "any" -> {Page(n, e) : n \in PageLens(cl), e \in BOOLEAN}
      [] service = "pages_until_40" ->
            {Page(IF off < 40 THEN 20 ELSE 0, FALSE)}
      [] service = "two_answers" ->
            {Page(IF off < 2 THEN Min(cl, 2 - off) ELSE 0, FALSE)}
      [] OTHER -> {Page(cl, FALSE)}

(***************************************************************************)
(* Specification Spec: main, with the generator and its consumer           *)
(***************************************************************************)
Init ==
    /\ ExtractorIdle
    /\ ChunkerIdle
    /\ \/ transport = "any" /\ limit \in 0..MaxLimit
          /\ args_chunk_size \in ModelChunkSizes
       \/ transport = "pages_until_40" /\ limit \in ExampleLimits
          /\ args_chunk_size = 5
       \/ transport = "null_counts" /\ limit \in 1..2 /\ args_chunk_size = 5
       \/ transport = "two_answers" /\ limit \in 1..3 /\ args_chunk_size = 5
    /\ mpc = "start"
    /\ gpc = "while"
    /\ collected = 0
    /\ offset = 0
    /\ current_limit = 0
    /\ answers = <<>>
    /\ ans_idx = 0
    /\ is_end = FALSE
    /\ requests = <<>>
    /\ responses = <<>>
    /\ yielded = <<>>
    /\ rows = <<>>
    /\ sleeps = <<>>
    /\ error = ""

\* write_answers_to_csv opens (truncates) the file and asks for a record
OpenCsv ==
    /\ mpc = "start"
    /\ mpc' = "next"
    /\ rows' = <<>>
    /\ UNCHANGED <<exVars, chVars, limit, args_chunk_size, transport, gpc,
                   collected, offset, current_limit, answers, ans_idx, is_end,
                   requests, responses, yielded, sleeps, error>>

\* while collected < limit: build and issue the request of the next page
SendRequest ==
    /\ mpc = "next"
    /\ gpc = "while"
    /\ collected < limit
    /\ current_limit' = CurrentLimit(limit, collected)
    /\ requests' = Append(requests, [limit |-> current_limit',
                                     offset |-> offset,
                                     collected |-> collected])
    /\ gpc' = "urlopen"
    /\ UNCHANGED <<exVars, chVars, limit, args_chunk_size, transport, mpc,
                   collected, offset, answers, ans_idx, is_end, responses,
                   yielded, rows, sleeps, error>>

\* the while condition is false: the generator returns
WhileExit ==
    /\ mpc = "next"
    /\ gpc = "while"
    /\ ~(collected < limit)
    /\ gpc' = "end"
    /\ UNCHANGED <<exVars, chVars, limit, args_chunk_size, transport, mpc,
                   collected, offset, current_limit, answers, ans_idx, is_end,
                   requests, responses, yielded, rows, sleeps, error>>

\* urlopen returned status 200 and a JSON body: payload["data"] and paging
ReceivePage ==
    /\ mpc = "next"
    /\ gpc = "urlopen"
    /\ \E page \in PageChoices(transport, current_limit, offset) :
          /\ answers' = [j \in 1..page.len |-> offset + j - 1]
          /\ is_end' = page.is_end
          /\ responses' = Append(responses, page)
          /\ ans_idx' = 1
          /\ gpc' = AfterPage(answers')
    /\ UNCHANGED <<exVars, chVars, limit, args_chunk_size, transport, mpc,
                   collected, offset, current_limit, requests, yielded, rows,
                   sleeps, error>>

\* the mutant: a failed request is issued again
FetchFailRetry ==
    /\ mpc = "next"
    /\ gpc = "urlopen"
    /\ transport = "any"
    /\ \E c \in FailureCauses : responses' = Append(responses, Failure(c))
    /\ error' = "RuntimeError"
    /\ gpc' = "while"
    /\ UNCHANGED <<exVars, chVars, limit, args_chunk_size, transport, mpc,
                   collected, offset, current_limit, answers, ans_idx, is_end,
                   requests, yielded, rows, sleeps>>

\* the request fails: RuntimeError leaves the generator and the writer (the
\* file is closed) and main reports it and returns 1
FetchFail ==
    /\ mpc = "next"
    /\ gpc = "urlopen"
    /\ transport = "any"
    /\ \E c \in FailureCauses : responses' = Append(responses, Failure(c))
    /\ error' = "RuntimeError"
    /\ gpc' = "raised"
    /\ mpc' = "exit1"
    /\ UNCHANGED <<exVars, chVars, limit, args_chunk_size, transport, collected,
                   offset, current_limit, answers, ans_idx, is_end, requests,
                   yielded, rows, sleeps>>

\* for answer in answers: build the record and yield it, or leave the loop
ForNext ==
    /\ mpc = "next"
    /\ gpc = "for"
    /\ IF ans_idx > Len(answers)
       THEN /\ gpc' = "paging"
            /\ UNCHANGED <<mpc, yielded, error>>
       ELSE LET b == BuildRecord(Answer(transport, answers[ans_idx]))
            IN IF b.raised # ""
               THEN /\ error' = b.raised
                    /\ gpc' = "raised"
                    /\ mpc' = "crashed"
                    /\ UNCHANGED yielded
               ELSE /\ yielded' =
                           Append(yielded,
                                  [src |-> <<Len(requests), ans_idx>>,
                                   author_name |-> b.author_name,
                                   voteup_count |-> b.voteup_count,
                                   favlists_count |-> b.favlists_count,
                                   content_text |-> b.content_text])
                    /\ gpc' = "yielded"
                    /\ mpc' = "row"
                    /\ UNCHANGED error
    /\ UNCHANGED <<exVars, chVars, limit, args_chunk_size, transport, collected,
                   offset, current_limit, answers, ans_idx, is_end, requests,
                   responses, rows, sleeps>>

\* the body of the for loop of write_answers_to_csv
WriteRow ==
    /\ mpc = "row"
    /\ LET record == yielded[Len(yielded)]
           content_chunks == chunk_text(record.content_text, args_chunk_size)
       IN IF content_chunks.raised # ""
          THEN /\ error' = content_chunks.raised
               /\ mpc' = "crashed"
               /\ UNCHANGED rows
          ELSE /\ rows' = Append(rows, MakeRow(record, content_chunks.value))
               /\ mpc' = "next"
               /\ UNCHANGED error
    /\ UNCHANGED <<exVars, chVars, limit, args_chunk_size, transport, gpc,
                   collected, offset, current_limit, answers, ans_idx, is_end,
                   requests, responses, yielded, sleeps>>

\* the generator is resumed after the yield
Resume ==
    /\ mpc = "next"
    /\ gpc = "yielded"
    /\ collected' = NextCollected(collected)
    /\ gpc' = AfterYield(collected', limit)
    /\ ans_idx' = IF gpc' = "for" THEN NextIndex(ans_idx) ELSE ans_idx
    /\ UNCHANGED <<exVars, chVars, limit, args_chunk_size, transport, mpc,
                   offset,
                   current_limit, answers, is_end, requests, responses,
                   yielded, rows, sleeps, error>>

\* after the for loop: stop on paging.is_end, else advance the offset
CheckPaging ==
    /\ mpc = "next"
    /\ gpc = "paging"
    /\ IF is_end
       THEN gpc' = "end" /\ UNCHANGED offset
       ELSE /\ gpc' = "sleep"
            /\ offset' = NextOffset(offset, current_limit, answers)
    /\ UNCHANGED <<exVars, chVars, limit, args_chunk_size, transport, mpc,
                   collected, current_limit, answers, ans_idx, is_end, requests,
                   responses, yielded, rows, sleeps, error>>

\* time.sleep(0.3)
Sleep ==
    /\ mpc = "next"
    /\ gpc = "sleep"
    /\ sleeps' = Append(sleeps, Len(requests))
    /\ gpc' = "while"
    /\ UNCHANGED <<exVars, chVars, limit, args_chunk_size, transport, mpc,
                   collected, offset, current_limit, answers, ans_idx, is_end,
                   requests, responses, yielded, rows, error>>

\* the generator is exhausted: the writer closes the file, main returns 0
WriterDone ==
    /\ mpc = "next"
    /\ gpc = "end"
    /\ mpc' = "done"
    /\ UNCHANGED <<exVars, chVars, limit, args_chunk_size, transport, gpc,
                   collected, offset, current_limit, answers, ans_idx, is_end,
                   requests, responses, yielded, rows, sleeps, error>>

Next ==
    \/ OpenCsv
    \/ SendRequest
    \/ WhileExit
    \/ ReceivePage
    \/ FetchFail
    \/ ForNext
    \/ WriteRow
    \/ Resume
    \/ CheckPaging
    \/ Sleep
    \/ WriterDone

Spec == Init /\ [][Next]_vars

(***************************************************************************)
(* Claims about the Text Extractor                                         *)
(***************************************************************************)
IgnoredTagEvent(ev) == ev.kind \in {"start", "end"} /\ ev.name \in IGNORED_TAGS

TextKeep == <<"k", "e", "e", "p">>

\* C1: while the suppression depth is nonzero, an event other than an
\* ignored-set start-tag or end-tag appends nothing to the output buffer,
\* and "<script>evil()</script>keep" yields "keep".
C1_SuppressedEventsAppendNothing ==
    /\ [][(/\ xpc = "feeding"
           /\ pos < Len(html)
           /\ ignored_depth # 0
           /\ ~IgnoredTagEvent(html[pos + 1])) => parts' = parts]_vars
    /\ [](html = HtmlScriptKeep /\ xpc = "done" => text_out = TextKeep)

\* C1 witness: a non-blank text node has just been handled inside a script
\* element and the buffer is still empty.
C1_Witness ==
    /\ pos >= 2
    /\ html[pos - 1] = StartTag("script")
    /\ html[pos] = Data(<<"a">>)
    /\ ignored_depth = 1
    /\ parts = <<>>

\* C2 (as stated): "<p>a</p><p>b</p>" yields "a\nb", a single newline and no
\* blank line between the two texts.
C2_Original ==
    (html = HtmlTwoParagraphs /\ xpc = "done") => text_out = <<"a", "\n", "b">>

\* C2 (amended): "<p>a</p><p>b</p>" emits four newline tokens and yields
\* "a\n\nb": the two texts are separated by exactly one blank line.
C2_TwoParagraphsOneBlankLine ==
    (html = HtmlTwoParagraphs /\ xpc = "done") =>
        /\ parts =
               << <<"\n">>, <<"a">>, <<"\n">>, <<"\n">>, <<"b">>, <<"\n">> >>
        /\ text_out = <<"a", "\n", "\n", "b">>

\* C2 witness: the two-paragraph input has been extracted.
C2_Witness == html = HtmlTwoParagraphs /\ xpc = "done" /\ Len(text_out) = 4

\* the text has no two adjacent empty lines, no line with leading or trailing
\* whitespace, and neither starts nor ends with whitespace
CleanText(t) ==
    /\ \A i \in 1..Len(t) : t[i] \in LineBoundaries => t[i] = "\n"
    /\ ~\E i \in 1..(Len(t) - 2) :
           t[i] = "\n" /\ t[i + 1] = "\n" /\ t[i + 2] = "\n"
    /\ \A i \in 1..Len(t) :
           t[i] = "\n" =>
               /\ i > 1 => t[i - 1] \notin (Whitespace \ {"\n"})
               /\ i < Len(t) => t[i + 1] \notin (Whitespace \ {"\n"})
    /\ t # <<>> => (t[1] \notin Whitespace /\ t[Len(t)] \notin Whitespace)

\* C3: for every output buffer, the text get_text returns has no two
\* adjacent empty lines, no line with leading or trailing whitespace, and
\* neither starts nor ends with whitespace or a newline.
C3_GetTextClean == xpc = "done" => CleanText(text_out)

\* C3 witness: three newline tokens between two texts were collapsed to one
\* blank line and the trailing blank was stripped.
C3_Witness ==
    /\ xpc = "done"
    /\ parts = << <<"a">>, <<"\n">>, <<"\n">>, <<"\n">>, <<"a">>, <<" ">> >>
    /\ text_out = <<"a", "\n", "\n", "a">>

(***************************************************************************)
(* Claims about the Chunker                                                *)
(***************************************************************************)
\* C4: for a non-empty text and a positive chunk_size the pieces concatenate
\* to the text, every piece but the last has length chunk_size and the last
\* has length in 1..chunk_size; "abcdef",3 -> abc,def; "abcde",3 -> abc,de.
C4_ChunkRoundTrip ==
    /\ (cpc # "call" /\ ctext # <<>> /\ csize > 0) =>
           /\ cpc = "returned"
           /\ JoinEmpty(chunks) = ctext
           /\ \A i \in 1..(Len(chunks) - 1) : Len(chunks[i]) = csize
           /\ Len(chunks) >= 1
           /\ Len(chunks[Len(chunks)]) \in 1..csize
    /\ (cpc # "call" /\ ctext = TextAbcdef /\ csize = 3) =>
           chunks = << <<"a", "b", "c">>, <<"d", "e", "f">> >>
    /\ (cpc # "call" /\ ctext = TextAbcde /\ csize = 3) =>
           chunks = << <<"a", "b", "c">>, <<"d", "e">> >>

\* C4 witness: a five-character text was cut into a full piece and a rest.
C4_Witness ==
    /\ cpc = "returned"
    /\ ctext = TextAbcde
    /\ csize = 3
    /\ Len(chunks) = 2

\* C5: chunk_text never returns an empty list, and for the empty text and a
\* positive chunk_size it returns exactly one element, the empty string.
C5_ChunksNeverEmpty ==
    /\ cpc = "returned" => Len(chunks) >= 1
    /\ (cpc # "call" /\ ctext = <<>> /\ csize > 0) =>
           (cpc = "returned" /\ chunks = << <<>> >>)

\* C5 witness: the empty text was chunked.
C5_Witness == cpc = "returned" /\ ctext = <<>> /\ chunks = << <<>> >>

(***************************************************************************)
(* Claims about the Pagination Client and the writer                       *)
(***************************************************************************)
LastResponse == responses[Len(responses)]

\* one of the three stop conditions has occurred
StopCondition ==
    \/ Len(yielded) >= limit
    \/ /\ responses # <<>>
       /\ Len(responses) = Len(requests)
       /\ LastResponse.ok
       /\ (LastResponse.len = 0 \/ LastResponse.is_end)

\* C6: once the yielded count has reached limit, or a page was empty, or
\* the server set paging.is_end, no further request is issued; pages of 20
\* until an empty page at offset 40 with limit 1000 give exactly 40 records
\* and exactly 3 requests.
C6_NoRequestAfterStop ==
    /\ [][StopCondition => requests' = requests]_vars
    /\ []((transport = "pages_until_40" /\ limit = 1000 /\ mpc = "done") =>
              /\ Len(yielded) = 40
              /\ Len(requests) = 3
              /\ <<responses[1].len, responses[2].len, responses[3].len>>
                     = <<20, 20, 0>>)

\* C6 witness: the run against the 40-answer service has ended.
C6_Witness ==
    /\ transport = "pages_until_40"
    /\ mpc = "done"
    /\ Len(requests) = 3
    /\ Len(rows) = 40

\* every page so far held exactly the requested number of records and the
\* server never signalled the end
AllExact ==
    \A i \in 1..Len(responses) :
        /\ responses[i].ok
        /\ responses[i].len = requests[i].limit
        /\ ~responses[i].is_end

\* C7: every request asks for min(20, limit - collected) records, between 1
\* and 20; the first offset is 0 and offsets strictly increase; when every
\* page holds exactly what was requested, exactly limit records are yielded
\* (limit 25: 25 records, the last requested page size is 5).
C7_PageSizeAndLimit ==
    /\ \A i \in 1..Len(requests) :
           /\ requests[i].limit = Min(20, limit - requests[i].collected)
           /\ requests[i].limit \in 1..20
    /\ requests # <<>> => requests[1].offset = 0
    /\ \A i \in 1..(Len(requests) - 1) :
           requests[i].offset < requests[i + 1].offset
    /\ (mpc = "done" /\ AllExact) => Len(yielded) = limit
    /\ (mpc = "done" /\ AllExact /\ limit = 25) =>
           (Len(requests) = 2 /\ requests[2].limit = 5)

\* C7 witness: a run with limit 25 against exact pages has ended.
C7_Witness ==
    /\ mpc = "done"
    /\ limit = 25
    /\ AllExact
    /\ Len(yielded) = 25
    /\ requests[Len(requests)].limit = 5

\* C8: for a positive limit, collected never exceeds limit and no more than
\* limit records are yielded, even when a page holds more than requested.
C8_CollectedAtMostLimit ==
    limit > 0 => (collected <= limit /\ Len(yielded) <= limit)

\* C8 witness: the last page held more records than requested and the run
\* ended with collected = limit.
C8_Witness ==
    /\ mpc = "done"
    /\ limit > 0
    /\ collected = limit
    /\ LastResponse.len > requests[Len(requests)].limit

Failures == {i \in 1..Len(responses) : ~responses[i].ok}

\* C9: after a failed page request there is one error, no further request
\* (the failed one is not repeated) and no further record; the records of
\* earlier pages are all written and stay written.
C9_FailureIsTerminal ==
    /\ [][Failures # {} =>
              /\ requests' = requests
              /\ responses' = responses
              /\ yielded' = yielded
              /\ rows' = rows]_vars
    /\ [](Failures # {} =>
              /\ Cardinality(Failures) = 1
              /\ error = "RuntimeError"
              /\ mpc = "exit1"
              /\ Len(requests) = Len(responses)
              /\ Len(rows) = Len(yielded)
              /\ \A i \in 1..Len(rows) : rows[i].src = yielded[i].src)

\* C9 witness: the third request failed after two pages were written.
C9_Witness ==
    /\ error = "RuntimeError"
    /\ Len(requests) = 3
    /\ ~LastResponse.ok
    /\ Len(rows) >= 2

\* the records the server returned, page by page and in page order
RECURSIVE ServedFrom(_)
ServedFrom(i) ==
    IF i > Len(responses) THEN <<>>
    ELSE [j \in 1..responses[i].len |-> <<i, j>>] \o ServedFrom(i + 1)

Served == ServedFrom(1)

RowOf(record, row) ==
    /\ row.src = record.src
    /\ row.author_name = record.author_name
    /\ row.voteup_count = record.voteup_count
    /\ row.favlists_count = record.favlists_count
    /\ JoinEmpty(row.chunks) = record.content_text

\* C10: the rows are, one for one and in the same order, the records
\* yielded, which are the records the server returned in the order it
\* returned them; nothing is written twice, skipped or reordered.
C10_RowsInFetchOrder ==
    /\ Len(yielded) <= Len(Served)
    /\ \A i \in 1..Len(yielded) : yielded[i].src = Served[i]
    /\ Len(rows) <= Len(yielded)
    /\ Len(yielded) <= Len(rows) + 1
    /\ \A i \in 1..Len(rows) : RowOf(yielded[i], rows[i])
    /\ mpc \in {"done", "exit1"} => Len(rows) = Len(yielded)

\* C10 witness: a run of three pages has ended with every record written.
C10_Witness ==
    /\ mpc = "done"
    /\ Len(responses) = 3
    /\ Len(rows) = Len(Served)
    /\ Len(rows) >= 3

TextHello == <<"H", "e", "l", "l", "o">>

\* C11: every row is the record's author name, upvote count and favorite
\* count followed by the chunks of its content text, at least one chunk;
\* contents "<p>Hello</p>" and "" with chunk size 5 give the rows
\* A, 3, 1, Hello and B, 0, 0, "".
C11_RowShape ==
    /\ \A i \in 1..Len(rows) :
           /\ rows[i].author_name = yielded[i].author_name
           /\ rows[i].voteup_count = yielded[i].voteup_count
           /\ rows[i].favlists_count = yielded[i].favlists_count
           /\ Len(rows[i].chunks) >= 1
           /\ rows[i].chunks =
                  chunk_text(yielded[i].content_text, args_chunk_size).value
    /\ (transport = "two_answers" /\ Len(rows) >= 1) =>
           /\ rows[1].author_name = "A"
           /\ rows[1].voteup_count = 3
           /\ rows[1].favlists_count = 1
           /\ rows[1].chunks = <<TextHello>>
    /\ (transport = "two_answers" /\ Len(rows) >= 2) =>
           /\ rows[2].author_name = "B"
           /\ rows[2].voteup_count = 0
           /\ rows[2].favlists_count = 0
           /\ rows[2].chunks = << <<>> >>

\* C11 witness: both answers of the two-answer service are written.
C11_Witness ==
    /\ transport = "two_answers"
    /\ mpc = "done"
    /\ Len(rows) = 2

\* C12: with a non-positive chunk size no request is ever issued: the
\* configuration error ends the run before any network activity.
C12_ConfigErrorBeforeNetwork ==
    args_chunk_size <= 0 => (requests = <<>> /\ mpc # "done")

\* the raw answer a yielded record was built from
SourceAnswer(record) ==
    Answer(transport, requests[record.src[1]].offset + record.src[2] - 1)

CountOrZero(v) == IF v.t = "int" THEN v.n ELSE 0

\* C13: a raw record whose author, author name or counts are missing (absent
\* or null) or whose author name is empty never makes the fetch fail and is
\* yielded with the placeholder name and 0 for the missing counts.
C13_MissingFieldsDefaulted ==
    /\ error \in {"", "RuntimeError", "ValueError"}
    /\ \A i \in 1..Len(yielded) :
           LET a == SourceAnswer(yielded[i])
           IN /\ (a.author.t # "object" \/ a.author.s = "") =>
                     yielded[i].author_name = PLACEHOLDER_NAME
              /\ yielded[i].voteup_count = CountOrZero(a.voteup_count)
              /\ yielded[i].favlists_count = CountOrZero(a.favlists_count)

\* C19: while every earlier page held exactly the requested number of
\* records, a request's offset is the number of records yielded so far; the
\* offset advances by the requested page size, whatever was received.
C19_OffsetTracksYielded ==
    /\ \A i \in 1..Len(requests) :
           (\A j \in 1..(i - 1) : responses[j].len = requests[j].limit) =>
               requests[i].offset = requests[i].collected
    /\ \A i \in 1..(Len(requests) - 1) :
           requests[i + 1].offset = requests[i].offset + requests[i].limit

\* C19 witness: the second request follows a full first page of 20.
C19_Witness ==
    /\ Len(requests) = 2
    /\ responses[1].len = 20
    /\ requests[2].offset = 20
    /\ requests[2].collected = 20

(***************************************************************************)
(* C14.  For every text, empty or not, and every chunk_size <= 0,          *)
(* chunk_text raises at once and returns no chunks: the size is never      *)
(* clamped to a positive value.                                            *)
(***************************************************************************)
C14_ChunkFailFast ==
    (cpc # "call" /\ csize <= 0) => (cpc = "raised" /\ chunks = <<>>)

C14_Witness == cpc = "raised" /\ csize = 0 /\ ctext = TextAbcde

(***************************************************************************)
(* C15.  For "<script><script>x</script>y</script>keep" the extractor      *)
(* returns a text that contains neither x nor y and that ends with keep.   *)
(***************************************************************************)
EndsWith(text, suffix) ==
    /\ Len(text) >= Len(suffix)
    /\ SubSeq(text, Len(text) - Len(suffix) + 1, Len(text)) = suffix

C15_NestedScriptSuppressed ==
    (parsed = 0 /\ html = Tokenize(HtmlNestedScript) /\ xpc = "done") =>
        /\ \A i \in 1..Len(text_out) : text_out[i] \notin {"x", "y"}
        /\ EndsWith(text_out, TextKeep)

(***************************************************************************)
(* C16.  The suppression depth is never negative; an ignored end tag       *)
(* received at depth zero leaves the depth at zero; and when the end tag   *)
(* of a well-nested ignored element has been handled, the depth is the     *)
(* one from before the element's start tag.                                *)
(***************************************************************************)
IgnoredStart(ev) == ev.kind = "start" /\ ev.name \in IGNORED_TAGS

IgnoredEnd(ev) == ev.kind = "end" /\ ev.name \in IGNORED_TAGS

\* the parser after the first j events of the current input
ParserAfter(j) == FeedAll(NewParser, SubSeq(html, 1, j), 1)

\* events[a..b] opens and closes ignored elements in a well-nested way
RECURSIVE WellNested(_, _, _, _)
WellNested(events, a, b, open) ==
    IF a > b THEN open = 0
    ELSE IF IgnoredStart(events[a])
         THEN WellNested(events, a + 1, b, open + 1)
    ELSE IF IgnoredEnd(events[a])
         THEN open > 0 /\ WellNested(events, a + 1, b, open - 1)
    ELSE WellNested(events, a + 1, b, open)

C16_DepthInvariant ==
    /\ ignored_depth >= 0
    /\ (pos >= 1 /\ IgnoredEnd(html[pos]) /\ ParserAfter(pos - 1).depth = 0)
           => ignored_depth = 0
    /\ \A i \in 1..(pos - 1) :
           ( /\ IgnoredStart(html[i])
             /\ IgnoredEnd(html[pos])
             /\ WellNested(html, i + 1, pos - 1, 0) ) =>
               ignored_depth = ParserAfter(i - 1).depth

C16_Witness ==
    /\ pos = 3
    /\ html[1] = StartTag("figure")
    /\ html[2] = StartTag("figure")
    /\ html[3] = EndTag("figure")
    /\ ignored_depth = 1

(***************************************************************************)
(* C20.  Within one extraction, after an ignored start tag from which the  *)
(* depth has not come back to zero, nothing is appended to the buffer up   *)
(* to the end of the input, and the returned text is the text of the       *)
(* buffer from before that tag; the extraction of the next answer starts   *)
(* with depth zero and an empty buffer.                                    *)
(***************************************************************************)
\* the depth has been positive since the ignored start tag html[i]
SuppressedSince(i) ==
    /\ IgnoredStart(html[i])
    /\ \A j \in i..pos : ParserAfter(j).depth > 0

C20_UnclosedSuppressesRest ==
    /\ \A i \in 1..pos :
           SuppressedSince(i) =>
               /\ parts = ParserAfter(i - 1).parts
               /\ (xpc = "done" =>
                      text_out = get_text(ParserAfter(i - 1).parts))
    /\ (xpc = "feeding" /\ pos = 0) => (ignored_depth = 0 /\ parts = <<>>)

C20_Witness ==
    /\ parsed = 0
    /\ html = HtmlUnclosedImg
    /\ xpc = "done"
    /\ ignored_depth = 1
    /\ text_out = <<>>

(***************************************************************************)
(* C17.  For every positive limit and every behaviour of the service in    *)
(* which each request returns, fetch_answers issues at most limit          *)
(* requests and comes to an end: every step of the run decreases a         *)
(* natural-number measure, and the run can only stop once the fetch has    *)
(* ended.                                                                  *)
(***************************************************************************)
\* the generator is exhausted, has raised, or its consumer has stopped
FetchEnded == gpc \in {"end", "raised"} \/ mpc \in {"exit1", "crashed"}

\* the position in the cycle that leads to the next counted record
Phase ==
    CASE mpc \in {"exit1", "crashed"} \/ gpc = "raised" -> 0
      [] mpc = "done" -> 1
      [] mpc = "start" -> 11
      [] gpc = "end" -> 2
      [] gpc = "yielded" -> IF mpc = "row" THEN 4 ELSE 3
      [] gpc = "for" -> IF ans_idx > Len(answers) THEN 10 ELSE 5
      [] gpc = "urlopen" -> 6
      [] gpc = "while" -> 7
      [] gpc = "sleep" -> 8
      [] gpc = "paging" -> 9

\* the measure: the records still to count, then the position
Rank == 12 * (limit - collected) + Phase

\* a step is possible; the for loop of fetch_answers always has one
CanStep ==
    \/ mpc = "next" /\ gpc = "for"
    \/ ENABLED (OpenCsv \/ SendRequest \/ WhileExit \/ ReceivePage \/ WriteRow
                   \/ Resume \/ CheckPaging \/ Sleep \/ WriterDone)

C17_FetchFinite ==
    /\ [](limit > 0 => Len(requests) <= limit)
    /\ [](Rank >= 0)
    /\ [][Rank' < Rank]_vars
    /\ [](~FetchEnded => CanStep)

C17_Witness ==
    /\ gpc = "end"
    /\ limit = 3
    /\ Len(requests) = 3
    /\ \A i \in 1..3 : responses[i].len = 1 /\ ~responses[i].is_end

(***************************************************************************)
(* C18.  Every delay is followed by a further request: when the fetch has  *)
(* ended, each delay was taken before the last request was issued.         *)
(***************************************************************************)
C18_DelayOnlyBetweenRequests ==
    gpc = "end" => \A i \in 1..Len(sleeps) : sleeps[i] < Len(requests)

=============================================================================
